---- MODULE Spec2Model ----
(***************************************************************************)
(* A model of hncli/hacker_news.py: the HackerNews object (its in-memory   *)
(* item_ids list and the ~/.hncliconfig record it saves and loads), the    *)
(* listing and viewing operations, the recursive comment walk, and the    *)
(* relative-age formatter.                                                 *)
(*                                                                         *)
(* Python strings are sequences of one-character strings, so that str(),   *)
(* replace(), split() and re.search() are computed, not assumed.           *)
(***************************************************************************)
EXTENDS Integers, Sequences, FiniteSets, TLC

VARIABLES
    item_ids,   \* self.item_ids: the in-memory list of identifiers
    config,     \* the item_ids value stored in ~/.hncliconfig, or NoFile
    saved,      \* history: the list object last handed to save_item_ids
    op,         \* the operation that produced this state
    arg,        \* the arguments of that operation
    remote,     \* the remote records the operation met (id -> item or failure)
    out,        \* what the operation wrote to the terminal, in order
    visits,     \* history: the nodes print_comments was called on, in order
    matched,    \* history: the ids regex_match was evaluated on, in order
    fetched,    \* history: the keys handed to hacker_news_api.get_item, in order
    err,        \* the exception raised inside the operation ("" when none)
    escaped,    \* TRUE when that exception left the operation uncaught
    now,        \* datetime.now() of a pretty_date_time call
    date_time,  \* the argument of a pretty_date_time call
    label       \* the value pretty_date_time returned

vars == <<item_ids, config, saved, op, arg, remote, out, visits, matched,
          fetched, err, escaped, now, date_time, label>>

(***************************************************************************)
(* Strings                                                                 *)
(***************************************************************************)

\* Python's None where a string is expected: no string has a long character.
NoneStr == <<"None">>

Digits == <<"0", "1", "2", "3", "4", "5", "6", "7", "8", "9">>

RECURSIVE Str(_)
\* str(n) of a non-negative int: its decimal digits.
Str(n) == IF n < 10 THEN <<Digits[n + 1]>>
          ELSE Str(n \div 10) \o <<Digits[(n % 10) + 1]>>

IsPrefixAt(sub, s, i) ==
    /\ i + Len(sub) - 1 <= Len(s)
    /\ \A k \in 1..Len(sub) : s[i + k - 1] = sub[k]

\* re.search(pattern, s) for a pattern of literal characters: does the
\* pattern occur somewhere in s?
Search(pattern, s) == \E i \in 1..(Len(s) + 1) : IsPrefixAt(pattern, s, i)

RECURSIVE Remove(_, _)
\* s.replace(ch, '') for a one-character ch.
Remove(s, ch) ==
    IF s = <<>> THEN <<>>
    ELSE IF Head(s) = ch THEN Remove(Tail(s), ch)
    ELSE <<Head(s)>> \o Remove(Tail(s), ch)

Whitespace == {" ", "\t", "\n"}

RECURSIVE LStrip(_)
LStrip(s) == IF s # <<>> /\ Head(s) \in Whitespace THEN LStrip(Tail(s)) ELSE s

RECURSIVE RStrip(_)
RStrip(s) == IF s # <<>> /\ s[Len(s)] \in Whitespace
             THEN RStrip(SubSeq(s, 1, Len(s) - 1)) ELSE s

\* s.strip()
Strip(s) == RStrip(LStrip(s))

RECURSIVE SplitFrom(_, _, _)
\* s.split(sep): the pieces between the occurrences of sep, left to right;
\* cur is the piece being collected.  ''.split(sep) is [''].
SplitFrom(s, sep, cur) ==
    IF s = <<>> THEN <<cur>>
    ELSE IF IsPrefixAt(sep, s, 1)
         THEN <<cur>> \o SplitFrom(SubSeq(s, Len(sep) + 1, Len(s)), sep, <<>>)
         ELSE SplitFrom(Tail(s), sep, cur \o <<Head(s)>>)

Split(s, sep) == SplitFrom(s, sep, <<>>)

(***************************************************************************)
(* pretty_date_time                                                        *)
(***************************************************************************)

SecondsPerDay == 86400

JustNow    == <<"j", "u", "s", "t", " ", "n", "o", "w">>
SecondsAgo == <<" ", "s", "e", "c", "o", "n", "d", "s", " ", "a", "g", "o">>
OneMinute  == <<"1", " ", "m", "i", "n", "u", "t", "e", " ", "a", "g", "o">>
MinutesAgo == <<" ", "m", "i", "n", "u", "t", "e", "s", " ", "a", "g", "o">>
OneHour    == <<"1", " ", "h", "o", "u", "r", " ", "a", "g", "o">>
HoursAgo   == <<" ", "h", "o", "u", "r", "s", " ", "a", "g", "o">>
Yesterday  == <<"Y", "e", "s", "t", "e", "r", "d", "a", "y">>
DaysAgo    == <<" ", "d", "a", "y", "s", " ", "a", "g", "o">>
WeeksAgo   == <<" ", "w", "e", "e", "k", "s", " ", "a", "g", "o">>
MonthsAgo  == <<" ", "m", "o", "n", "t", "h", "s", " ", "a", "g", "o">>
YearsAgo   == <<" ", "y", "e", "a", "r", "s", " ", "a", "g", "o">>

\* A submission time: an int() Epoch timestamp, a datetime, or None.
IntTime(t)  == [k |-> "int", t |-> t]
DateTime(t) == [k |-> "datetime", t |-> t]
NoTime      == [k |-> "none", t |-> 0]

\* Days and seconds by truncation, as of abs(): no negative day.
TruncatedDelta(d) ==
    IF d < 0 THEN [days |-> 0, seconds |-> (0 - d) % SecondsPerDay]
    ELSE [days |-> d \div SecondsPerDay, seconds |-> d % SecondsPerDay]

\* A timedelta of d seconds: Python normalises it to days (floor) and
\* 0 <= seconds < 86400.
timedelta(d) == [days |-> d \div SecondsPerDay, seconds |-> d % SecondsPerDay]

\* diff of pretty_date_time: now - then, and now - now for no time.
Diff(n, dt) ==
    LET d == IF dt.k = "none" THEN n - n ELSE n - dt.t
    IN  timedelta(d)

\* The weeks ending a day early.
LongAgoEarly(day_diff) ==
    IF day_diff < 30 THEN Str(day_diff \div 7) \o WeeksAgo
    ELSE IF day_diff < 365 THEN Str(day_diff \div 30) \o MonthsAgo
    ELSE Str(day_diff \div 365) \o YearsAgo

\* The tail of the if-chain, for 7 <= day_diff.
LongAgo(day_diff) ==
    IF day_diff < 31 THEN Str(day_diff \div 7) \o WeeksAgo
    ELSE IF day_diff < 365 THEN Str(day_diff \div 30) \o MonthsAgo
    ELSE Str(day_diff \div 365) \o YearsAgo

pretty_date_time(n, dt) ==
    LET diff == Diff(n, dt)
        second_diff == diff.seconds
        day_diff == diff.days
    IN  IF day_diff < 0 THEN <<>>
        ELSE IF day_diff = 0 /\ second_diff < 10 THEN JustNow
        ELSE IF day_diff = 0 /\ second_diff < 60
             THEN Str(second_diff) \o SecondsAgo
        ELSE IF day_diff = 0 /\ second_diff < 120 THEN OneMinute
        ELSE IF day_diff = 0 /\ second_diff < 3600
             THEN Str(second_diff \div 60) \o MinutesAgo
        ELSE IF day_diff = 0 /\ second_diff < 7200 THEN OneHour
        ELSE IF day_diff = 0 /\ second_diff < 86400
             THEN Str(second_diff \div 3600) \o HoursAgo
        ELSE IF day_diff = 1 THEN Yesterday
        ELSE IF day_diff < 7 THEN Str(day_diff) \o DaysAgo
        ELSE LongAgo(day_diff)

(***************************************************************************)
(* Items of the remote source (haxor's Item and HackerNewsApi.get_item)    *)
(***************************************************************************)

MaxDays == 740

\* The clock of the listing, viewing and walking operations.
Clock == MaxDays * SecondsPerDay

Al    == <<"a", "l">>
Owl   == <<"o", "w", "l">>
Hi    == <<"h", "i">>
How   == <<"h", "o", "w">>
Title == <<"T">>
Url   == <<"U">>

Recent == DateTime(Clock - 5)
Old    == DateTime(Clock - SecondsPerDay)

Item(id, by, title, url, text, time, kids) ==
    [ok |-> TRUE, id |-> id, by |-> by, title |-> title, url |-> url,
     text |-> text, submission_time |-> time, kids |-> kids]

\* A fetch that raises.
Failure == [ok |-> FALSE]

\* The kinds of record the remote source serves.  A record without an
\* author is a deleted one, and carries neither title nor text.
KLink(id, kids)    == Item(id, Al, Title, Url, NoneStr, Old, kids)
KAsk(id, kids)     == Item(id, Al, Title, NoneStr, How, Old, kids)
KComment(id, kids) == Item(id, Owl, NoneStr, NoneStr, Hi, Recent, kids)
KReply(id, kids)   == Item(id, Al, NoneStr, NoneStr, How, Old, kids)
KDeleted(id, kids) == Item(id, NoneStr, NoneStr, NoneStr, NoneStr, NoTime, kids)

Comments(id, kidss) ==
    UNION {{KComment(id, ks), KReply(id, ks), KDeleted(id, ks)} : ks \in kidss}

Stories(id, kidss) ==
    UNION {{KLink(id, ks), KAsk(id, ks)} : ks \in kidss}

\* The kids lists of a record: distinct later identifiers (a reply is created
\* after what it replies to), any number of them, in any order.
KidSeqs(later) ==
    UNION {{ks \in [1..n -> later] : \A i, j \in 1..n : i # j => ks[i] # ks[j]}
           : n \in 0..Cardinality(later)}

\* An element of item_ids: an int (appended by a listing) or a str (loaded
\* by view).
IntId(n) == [t |-> "int", n |-> n]
StrId(s) == [t |-> "str", s |-> s]

\* hacker_news_api.get_item(key) against the records db: the record whose
\* identifier the key writes, a raised error when there is none or the
\* fetch fails.
get_item(db, key) ==
    LET hits == {i \in DOMAIN db :
                    IF key.t = "int" THEN key.n = i ELSE key.s = Str(i)}
    IN  IF hits = {} THEN Failure ELSE db[CHOOSE i \in hits : TRUE]

(***************************************************************************)
(* regex_match, print_formatted_comment, print_comments                    *)
(***************************************************************************)

\* regex_match without the age label.
IgnoresTime(item, regex_query, n) ==
    LET match_user == Search(regex_query, item.by)
        match_text == Search(regex_query, item.text)
    IN  ~(~match_text /\ ~match_user)

regex_match(item, regex_query, n) ==
    LET match_time ==
            Search(regex_query, pretty_date_time(n, item.submission_time))
        match_user == Search(regex_query, item.by)
        match_text == Search(regex_query, item.text)
    IN  ~(~match_text /\ ~match_user /\ ~match_time)

\* What an operation has done so far.
Fresh == [out |-> <<>>, visits |-> <<>>, matched |-> <<>>, fetched |-> <<>>,
          err |-> ""]

\* Concatenating None to a str raises TypeError.
print_formatted_comment(item, depth, n, st) ==
    IF item.by = NoneStr THEN [st EXCEPT !.err = "TypeError"]
    ELSE [st EXCEPT !.out = Append(@,
             [k |-> "comment", id |-> item.id, depth |-> depth,
              age |-> pretty_date_time(n, item.submission_time)])]

\* The depth left as the child's.
DepthKept(depth) == depth

\* depth -= 1 after a child's recursion
DepthAfterChild(depth) == depth - 1

RECURSIVE print_comments(_, _, _, _, _, _)
RECURSIVE CommentLoop(_, _, _, _, _, _)

print_comments(db, item, regex_query, depth, n, st) ==
    LET comment_ids == item.kids
        has_text == item.text # NoneStr
        asks == has_text /\ regex_query # <<>>
        st1 == [st EXCEPT !.visits = Append(@, [id |-> item.id, depth |-> depth]),
                          !.matched = IF asks THEN Append(@, item.id) ELSE @]
        print_comment ==
            has_text /\ ~(regex_query # <<>> /\ ~regex_match(item, regex_query, n))
        st2 == IF print_comment THEN print_formatted_comment(item, depth, n, st1)
               ELSE st1
    IN  IF st2.err # "" \/ comment_ids = <<>> THEN st2
        ELSE CommentLoop(db, comment_ids, regex_query, depth, n, st2)

\* for comment_id in comment_ids: fetch, depth += 1, recurse, depth -= 1
CommentLoop(db, comment_ids, regex_query, depth, n, st) ==
    IF comment_ids = <<>> THEN st
    ELSE LET comment_id == Head(comment_ids)
             comment == get_item(db, IntId(comment_id))
             st1 == [st EXCEPT !.fetched = Append(@, IntId(comment_id))]
         IN  IF ~comment.ok THEN [st1 EXCEPT !.err = "FetchError"]
             ELSE LET deeper == depth + 1
                      st2 == print_comments(db, comment, regex_query, deeper, n, st1)
                  IN  IF st2.err # "" THEN st2
                      ELSE CommentLoop(db, Tail(comment_ids), regex_query,
                                       DepthAfterChild(deeper), n, st2)

(***************************************************************************)
(* save_item_ids and the parse in view                                     *)
(***************************************************************************)

\* No ~/.hncliconfig.
NoFile == NoneStr

\* repr() of an element of item_ids: the digits of an int, a str in quotes.
Repr(e) == IF e.t = "int" THEN Str(e.n) ELSE <<"'">> \o e.s \o <<"'">>

RECURSIVE Join(_)
\* ', '.join of the elements' repr
Join(l) == IF l = <<>> THEN <<>>
           ELSE IF Len(l) = 1 THEN Repr(l[1])
           ELSE Repr(l[1]) \o <<",", " ">> \o Join(Tail(l))

\* str(self.item_ids), which RawConfigParser.write stores as the value of
\* item_ids in the section hncli.
save_item_ids(l) == <<"[">> \o Join(l) \o <<"]">>

RECURSIVE RemoveAll(_, _)
\* for exclude in excludes: items_ids = items_ids.replace(exclude, '')
RemoveAll(s, excludes) ==
    IF excludes = <<>> THEN s
    ELSE RemoveAll(Remove(s, Head(excludes)), Tail(excludes))

\* The list view assigns to self.item_ids from the stored value.
load_item_ids(value) ==
    LET items_ids == RemoveAll(Strip(value), <<"[", "]", "'">>)
        pieces == Split(items_ids, <<",", " ">>)
    IN  [i \in 1..Len(pieces) |-> StrId(pieces[i])]

\* l[i] of Python, i counted from 0: a negative i counts from the end.
\* pos is the 1-based position read, 0 for an IndexError.
Subscript(l, i) ==
    LET j == IF i < 0 THEN i + Len(l) ELSE i
    IN  IF j < 0 \/ j >= Len(l) THEN 0 ELSE j + 1

(***************************************************************************)
(* print_formatted_item, print_items                                       *)
(***************************************************************************)

\* if item.title: None and '' are false.
Truthy(s) == s # NoneStr /\ s # <<>>

\* The row of an item, and self.item_ids.append(item.item_id).
print_formatted_item(item, index, n, st) ==
    IF item.by = NoneStr THEN [st EXCEPT !.err = "TypeError"]
    ELSE [st EXCEPT
             !.out = Append(@, [k |-> "row", index |-> index, id |-> item.id,
                                age |-> pretty_date_time(n, item.submission_time)]),
             !.item_ids = Append(@, IntId(item.id))]

RECURSIVE ItemLoopCounting(_, _, _, _, _)
\* The loop numbering every fetched item, titled or not.
ItemLoopCounting(db, ids, index, n, st) ==
    IF ids = <<>> THEN st
    ELSE LET item == get_item(db, IntId(Head(ids)))
             st1 == [st EXCEPT !.fetched = Append(@, IntId(Head(ids)))]
         IN  IF ~item.ok THEN [st1 EXCEPT !.err = "FetchError"]
             ELSE IF Truthy(item.title)
             THEN LET st2 == print_formatted_item(item, index, n, st1)
                  IN  IF st2.err # "" THEN st2
                      ELSE ItemLoopCounting(db, Tail(ids), index + 1, n, st2)
             ELSE ItemLoopCounting(db, Tail(ids), index + 1, n, st1)

RECURSIVE ItemLoop(_, _, _, _, _)
\* for item_id in item_ids: fetch; a titled item is printed and numbered.
ItemLoop(db, ids, index, n, st) ==
    IF ids = <<>> THEN st
    ELSE LET item == get_item(db, IntId(Head(ids)))
             st1 == [st EXCEPT !.fetched = Append(@, IntId(Head(ids)))]
         IN  IF ~item.ok THEN [st1 EXCEPT !.err = "FetchError"]
             ELSE IF Truthy(item.title)
             THEN LET st2 == print_formatted_item(item, index, n, st1)
                  IN  IF st2.err # "" THEN st2
                      ELSE ItemLoop(db, Tail(ids), index + 1, n, st2)
             ELSE ItemLoop(db, Tail(ids), index, n, st1)

\* print_items saving whatever the loop left, as in a finally:.
SavesAnyway(db, ids, n, st) ==
    LET st1 == ItemLoop(db, ids, 1, n,
                        [st EXCEPT !.out = Append(@, [k |-> "message"])])
    IN  [st1 EXCEPT !.config = save_item_ids(st1.item_ids),
                    !.saved = st1.item_ids,
                    !.escaped = (st1.err # ""),
                    !.out = IF st1.err # "" THEN @ ELSE Append(@, [k |-> "tip"])]

\* What print_items leaves: nothing catches an exception of the loop, so the
\* save and the tip are reached only when the loop ends.
print_items(db, ids, n, st) ==
    LET st1 == ItemLoop(db, ids, 1, n,
                        [st EXCEPT !.out = Append(@, [k |-> "message"])])
    IN  IF st1.err # "" THEN [st1 EXCEPT !.escaped = TRUE]
        ELSE [st1 EXCEPT !.config = save_item_ids(st1.item_ids),
                         !.saved = st1.item_ids,
                         !.out = Append(@, [k |-> "tip"])]

(***************************************************************************)
(* view                                                                    *)
(***************************************************************************)

\* except Exception as e: click.secho('Error: ' + str(e))
Caught(st) ==
    IF st.err = "" THEN st
    ELSE [st EXCEPT !.out = Append(@, [k |-> "error", e |-> st.err])]

\* The first half of the try: of view: the file is read and the stored value
\* parsed into self.item_ids.  A missing file raises IOError.
Load(st) ==
    IF st.config = NoFile THEN [st EXCEPT !.err = "IOError"]
    ELSE [st EXCEPT !.item_ids = load_item_ids(st.config)]

\* The second half: the item at the index is fetched and shown.  page_ok:
\* whether the request of print_url_contents succeeds.
Show(db, index, comments_query, comments, page_ok, n, st) ==
    LET pos == Subscript(st.item_ids, index - 1)
    IN  IF st.err # "" THEN st
        ELSE IF pos = 0 THEN [st EXCEPT !.err = "IndexError"]
        ELSE
        LET item == get_item(db, st.item_ids[pos])
            st2 == [st EXCEPT !.fetched = Append(@, st.item_ids[pos])]
        IN  IF ~item.ok THEN [st2 EXCEPT !.err = "FetchError"]
            ELSE IF comments
            THEN LET st3 == [st2 EXCEPT !.out = Append(@, [k |-> "fetching",
                                                          id |-> item.id])]
                     w == print_comments(db, item, comments_query, 0, n,
                              [out |-> st3.out, visits |-> st3.visits,
                               matched |-> st3.matched, fetched |-> st3.fetched,
                               err |-> st3.err])
                 IN  [st3 EXCEPT !.out = w.out, !.visits = w.visits,
                                 !.matched = w.matched, !.fetched = w.fetched,
                                 !.err = w.err]
            ELSE IF item.url = NoneStr THEN [st2 EXCEPT !.err = "TypeError"]
            ELSE LET st3 == [st2 EXCEPT !.out = Append(@, [k |-> "opening",
                                                          id |-> item.id])]
                 IN  IF page_ok
                     THEN [st3 EXCEPT !.out = Append(@, [k |-> "page",
                                                        id |-> item.id])]
                     ELSE [st3 EXCEPT !.err = "RequestError"]

\* view, from the state Load leaves: whatever the try: raises is caught.
view(db, index, comments_query, comments, page_ok, n, st) ==
    Caught(Show(db, index, comments_query, comments, page_ok, n, st))

(***************************************************************************)
(* The program: a HackerNews object, its listings and views                *)
(***************************************************************************)

MaxList == 2
MaxIds == 2

\* The identifiers the listings are about: one of one digit, one of two.
ItemIds == {9, 10}

\* The identifiers of the replies to them.
ReplyIds == {11}

Range(f) == {f[i] : i \in DOMAIN f}

IdLists == UNION {[1..n -> ItemIds] : n \in 0..MaxList}

\* The records a listing may meet: for each identifier a titled record, an
\* untitled one, or a failing fetch.
ListRemotes(ids) ==
    {db \in [Range(ids) -> UNION {{KLink(i, <<>>), KComment(i, <<>>)}
                                  : i \in ItemIds} \cup {Failure}] :
        \A i \in Range(ids) : db[i].ok => db[i].id = i}

\* The records a view of the identifier root may meet: a failing fetch, or
\* a story and, for each of its kids, a reply or a failing fetch.
ViewRemotes(root) ==
    {(root :> Failure)} \cup
    UNION {{(root :> r) @@ db :
               db \in {d \in [Range(r.kids) ->
                                 UNION {Comments(i, {<<>>}) : i \in ReplyIds}
                                 \cup {Failure}] :
                          \A i \in Range(r.kids) : d[i].ok => d[i].id = i}}
           : r \in Stories(root, KidSeqs(ReplyIds))}

\* The records a view of the page of root may meet.
PageRemotes(root) ==
    [{root} -> Stories(root, {<<>>}) \cup {Failure}]

\* The identifiers a key of the loaded list may write.
Roots(key) == {i \in ItemIds : key.s = Str(i)}

ViewPatterns == {<<>>, <<"h", "o">>}

\* The state an operation starts from.
Enter == [item_ids |-> item_ids, config |-> config, saved |-> saved,
          out |-> <<>>, visits |-> <<>>, matched |-> <<>>, fetched |-> <<>>,
          err |-> "", escaped |-> FALSE]

\* The records among db that the operation fetched.
Met(db, keys) ==
    LET ids == {i \in DOMAIN db : \E k \in 1..Len(keys) :
                   IF keys[k].t = "int" THEN keys[k].n = i
                   ELSE keys[k].s = Str(i)}
    IN  [i \in ids |-> db[i]]

\* The operation o(a) ends in the state res, having met the records of db.
Leave(o, a, db, res) ==
    \E st \in {res} :
        /\ item_ids' = st.item_ids
        /\ config' = st.config
        /\ saved' = st.saved
        /\ op' = o
        /\ arg' = a
        /\ remote' = Met(db, st.fetched)
        /\ out' = st.out
        /\ visits' = st.visits
        /\ matched' = st.matched
        /\ fetched' = st.fetched
        /\ err' = st.err
        /\ escaped' = st.escaped
        /\ UNCHANGED <<now, date_time, label>>

Idle(o) ==
    /\ item_ids = <<>>
    /\ config = NoneStr
    /\ saved = <<>>
    /\ op = o
    /\ out = <<>>
    /\ visits = <<>>
    /\ matched = <<>>
    /\ fetched = <<>>
    /\ err = ""
    /\ escaped = FALSE
    /\ now = Clock
    /\ date_time = NoTime
    /\ label = NoneStr


Init ==
    /\ Idle("__init__")
    /\ arg = <<>>
    /\ remote = <<>>

\* HackerNews(): a new process builds a new object; the file stays.
New ==
    /\ op # "__init__"
    /\ Leave("__init__", <<>>, <<>>,
             [Enter EXCEPT !.item_ids = <<>>])

PrintItems ==
    \E ids \in IdLists :
        /\ Len(item_ids) + Len(ids) <= MaxIds
        /\ \E db \in ListRemotes(ids) :
              Leave("print_items", [item_ids |-> ids], db,
                    print_items(db, ids, now, Enter))

\* view(index, comments_query, comments).  The records are drawn for the
\* identifier the index resolves to; a key that writes no identifier (or no
\* key at all) meets no record.  comments_query is read in comments mode only.
View ==
    \E st \in {Load(Enter)}, index \in (-(MaxIds + 1))..(MaxIds + 1) :
        LET pos == IF st.err # "" THEN 0 ELSE Subscript(st.item_ids, index - 1)
            roots == IF pos = 0 THEN {} ELSE Roots(st.item_ids[pos])
        IN  \/ \E comments_query \in ViewPatterns :
                 LET a == [index |-> index, comments_query |-> comments_query,
                           comments |-> TRUE]
                 IN  IF roots = {}
                     THEN Leave("view", a, <<>>,
                                view(<<>>, index, comments_query, TRUE, TRUE,
                                     now, st))
                     ELSE \E root \in roots : \E db \in ViewRemotes(root) :
                             Leave("view", a, db,
                                   view(db, index, comments_query, TRUE, TRUE,
                                        now, st))
            \/ LET a == [index |-> index, comments_query |-> <<>>,
                         comments |-> FALSE]
               IN  IF roots = {}
                   THEN Leave("view", a, <<>>,
                              view(<<>>, index, <<>>, FALSE, TRUE, now, st))
                   ELSE \E root \in roots :
                        \E db \in PageRemotes(root), page_ok \in BOOLEAN :
                           Leave("view", a, db,
                                 view(db, index, <<>>, FALSE, page_ok, now, st))

Next == New \/ PrintItems \/ View

Spec == Init /\ [][Next]_vars

(***************************************************************************)
(* The walk on its own: print_comments applied to a tree of records        *)
(***************************************************************************)

MaxNodes == 3

WalkIds == 1..MaxNodes

\* The root is a fetched record; every other record may fail to be fetched.
WalkRemotes ==
    {db \in [WalkIds -> UNION {Comments(i, KidSeqs({j \in WalkIds : j > i}))
                               : i \in WalkIds} \cup {Failure}] :
        /\ db[1].ok
        /\ \A i \in WalkIds : db[i].ok => db[i].id = i}

Patterns == {<<>>, <<"w", "l">>, <<"h", "o">>, <<"j", "u", "s", "t">>,
             <<"z", "z">>}

InitWalk ==
    /\ Idle("start")
    /\ remote \in WalkRemotes
    /\ arg \in [root : {1}, regex_query : Patterns]

Walk ==
    /\ op = "start"
    /\ LET st == print_comments(remote, remote[arg.root], arg.regex_query, 0,
                                now, Fresh)
       IN  /\ out' = st.out
           /\ visits' = st.visits
           /\ matched' = st.matched
           /\ fetched' = st.fetched
           /\ err' = st.err
           /\ escaped' = (st.err # "")
    /\ op' = "print_comments"
    /\ UNCHANGED <<item_ids, config, saved, arg, remote, now, date_time, label>>

NextWalk == Walk

SpecWalk == InitWalk /\ [][NextWalk]_vars

(***************************************************************************)
(* pretty_date_time on its own                                             *)
(***************************************************************************)

MaxSkewDays == 2
MaxSeconds == 125

SecondSamples ==
    (0..MaxSeconds) \cup
    {s \in {h * 3600 + j : h \in 0..24, j \in {-1, 0, 1}} :
        0 <= s /\ s < SecondsPerDay}

Elapsed ==
    SecondSamples \cup
    {d * SecondsPerDay + s : d \in (-MaxSkewDays)..MaxDays,
                             s \in {0, SecondsPerDay - 1}}

InitTime ==
    /\ item_ids = <<>>
    /\ config = NoneStr
    /\ saved = <<>>
    /\ op = "start"
    /\ arg = <<>>
    /\ remote = <<>>
    /\ out = <<>>
    /\ visits = <<>>
    /\ matched = <<>>
    /\ fetched = <<>>
    /\ err = ""
    /\ escaped = FALSE
    /\ now = Clock
    /\ label = NoneStr
    /\ date_time \in {NoTime} \cup {IntTime(Clock - e) : e \in Elapsed}
                              \cup {DateTime(Clock - e) : e \in Elapsed}

FormatTime ==
    /\ op = "start"
    /\ label' = pretty_date_time(now, date_time)
    /\ op' = "pretty_date_time"
    /\ UNCHANGED <<item_ids, config, saved, arg, remote, out, visits, matched,
                   fetched, err, escaped, now, date_time>>

NextTime == FormatTime

SpecTime == InitTime /\ [][NextTime]_vars

(***************************************************************************)
(* Properties                                                              *)
(***************************************************************************)

IsRow(e) == e.k = "row"

\* The numbered rows of the output, in order.
Rows(o) == SelectSeq(o, IsRow)

\* The identifiers of the rows, as a listing appends them.
Printed(o) == [i \in 1..Len(Rows(o)) |-> IntId(Rows(o)[i].id)]

Errors(o) == {i \in DOMAIN o : o[i].k = "error"}

Shown(o) == {i \in DOMAIN o : o[i].k \in {"fetching", "opening", "page", "comment"}}

DigitOf(c) == CHOOSE d \in 0..9 : Digits[d + 1] = c

RECURSIVE Number(_, _)
Number(s, acc) == IF s = <<>> THEN acc
                  ELSE Number(Tail(s), 10 * acc + DigitOf(Head(s)))

\* The identifier an element of item_ids denotes; -1 when it writes none.
Denoted(e) ==
    IF e.t = "int" THEN e.n
    ELSE IF e.s # <<>> /\ \A i \in DOMAIN e.s : \E d \in 0..9 : Digits[d + 1] = e.s[i]
         THEN Number(e.s, 0)
         ELSE -1

\* C1: a view of an index below 1 or above the length of the persisted list
\* reports an out-of-range error and fetches and shows nothing.
C1_OutOfRangeIndexFails ==
    (op = "view" /\ config # NoFile
       /\ (arg.index < 1 \/ arg.index > Len(saved)))
    => (err = "IndexError" /\ Cardinality(Errors(out)) = 1
          /\ fetched = <<>> /\ Shown(out) = {})

\* C2: when a listing completes, the in-memory list and the persisted list
\* are exactly the identifiers that listing printed.
C2_IndexIsLastListing ==
    (op = "print_items" /\ err = "")
    => (item_ids = Printed(out) /\ saved = Printed(out)
          /\ config = save_item_ids(Printed(out)))

\* C3: the list a view loads has the length of the list that was saved and
\* denotes the same identifier at every position.
C3_SaveLoadRoundTrip ==
    (op = "view" /\ config # NoFile)
    => /\ Len(item_ids) = Len(saved)
       /\ \A i \in 1..Len(saved) : i <= Len(item_ids)
             => Denoted(item_ids[i]) = Denoted(saved[i])

\* C4: a failure inside a listing or a view is reported as one error message
\* and does not leave the operation.
C4_FailuresAreCaught ==
    (op \in {"print_items", "view"} /\ err # "")
    => (~escaped /\ Cardinality(Errors(out)) = 1)

\* Every fetch of the listing succeeded.
AllListed ==
    \A i \in 1..Len(arg.item_ids) :
        arg.item_ids[i] \in DOMAIN remote /\ remote[arg.item_ids[i]].ok

Titled(id) == Truthy(remote[id].title)

\* The rows are the titled identifiers of ids, in order, numbered from 1, and
\* item_ids is before followed by them.
ListedFrom(before, ids) ==
    LET titled == SelectSeq(ids, Titled)
        rows == Rows(out)
    IN  /\ Len(rows) = Len(titled)
        /\ \A n \in 1..Len(titled) : rows[n].index = n /\ rows[n].id = titled[n]
        /\ item_ids = before \o [n \in 1..Len(titled) |-> IntId(titled[n])]

AbortedFrom(before) ==
    LET ids == arg.item_ids
        f == CHOOSE i \in 1..Len(ids) :
                 /\ ~remote[ids[i]].ok
                 /\ \A g \in 1..(i - 1) : remote[ids[g]].ok
    IN  /\ \E i \in 1..Len(ids) : ~remote[ids[i]].ok
        /\ fetched = [i \in 1..f |-> IntId(ids[i])]
        /\ ListedFrom(before, SubSeq(ids, 1, f - 1))
        /\ \A i \in DOMAIN out : out[i].k # "tip"

\* C10: a listing in which a fetch fails stops at that item: nothing later is
\* fetched or printed, nothing is saved (the persisted record is as it was),
\* and item_ids keeps what was appended before the failure.
C10_FailedListingSavesNothing ==
    [][(op' = "print_items" /\ err' = "FetchError")
       => (config' = config /\ saved' = saved
             /\ \E before \in {item_ids} : AbortedFrom(before)')]_vars

\* A listing over a persisted record that failed before its last identifier.
C10_Witness ==
    /\ op = "print_items" /\ err = "FetchError"
    /\ config # NoFile
    /\ Len(fetched) < Len(arg.item_ids)
    /\ config # save_item_ids(item_ids)

(***************************************************************************)
(* Properties of the walk                                                  *)
(***************************************************************************)

RECURSIVE PathsFrom(_)
\* The paths from a record down its kids, each a sequence of positions in
\* the kids lists; a failing fetch ends its path.
PathsFrom(id) ==
    IF ~remote[id].ok THEN {<<>>}
    ELSE {<<>>} \cup
         UNION {{<<i>> \o p : p \in PathsFrom(remote[id].kids[i])}
                : i \in DOMAIN remote[id].kids}

RECURSIVE NodeAt(_, _)
NodeAt(id, p) == IF p = <<>> THEN id
                 ELSE NodeAt(remote[id].kids[Head(p)], Tail(p))

\* p comes before q in depth-first pre-order: p is a proper prefix of q, or
\* p turns to an earlier child where they part.
Before(p, q) ==
    \/ Len(p) < Len(q) /\ SubSeq(q, 1, Len(p)) = p
    \/ \E k \in 1..Len(p) :
          /\ k <= Len(q)
          /\ SubSeq(p, 1, k - 1) = SubSeq(q, 1, k - 1)
          /\ p[k] < q[k]

Rank(p, P) == Cardinality({q \in P : Before(q, p)}) + 1

WalkSucceeds == \A p \in PathsFrom(arg.root) : remote[NodeAt(arg.root, p)].ok

ShouldRender(item, pattern) ==
    /\ item.text # NoneStr
    /\ \/ pattern = <<>>
       \/ Search(pattern, item.by)
       \/ Search(pattern, item.text)
       \/ Search(pattern, pretty_date_time(now, item.submission_time))

WantRendered(v) == ShouldRender(remote[v.id], arg.regex_query)

ElapsedSeconds == now - date_time.t

AgeLabel(e) ==
    LET d == e \div 86400
        s == e % 86400
    IN  CASE d = 0 /\ s < 10 -> JustNow
          [] d = 0 /\ 10 <= s /\ s < 60 -> Str(s) \o SecondsAgo
          [] d = 0 /\ 60 <= s /\ s < 120 -> OneMinute
          [] d = 0 /\ 120 <= s /\ s < 3600 -> Str(s \div 60) \o MinutesAgo
          [] d = 0 /\ 3600 <= s /\ s < 7200 -> OneHour
          [] d = 0 /\ 7200 <= s -> Str(s \div 3600) \o HoursAgo
          [] d = 1 -> Yesterday
          [] 2 <= d /\ d <= 6 -> Str(d) \o DaysAgo
          [] 7 <= d /\ d <= 30 -> Str(d \div 7) \o WeeksAgo
          [] 31 <= d /\ d <= 364 -> Str(d \div 30) \o MonthsAgo
          [] d >= 365 -> Str(d \div 365) \o YearsAgo

====
